---- MODULE Spec2Model ----
(***************************************************************************)
(* The request dispatcher of async-fuse (src/src/request.rs) as a state    *)
(* machine: the session's phase flags and negotiated ABI version, and the  *)
(* dispatch tasks that run Request::dispatch concurrently.  A task runs    *)
(* from its dispatch to its first await in one step, and from the return   *)
(* of the awaited filesystem callback to its end in another: the tasks are  *)
(* scheduled cooperatively and the awaits are their only suspension points.*)
(* The request parser (src/src/ll/request.rs, Request::try_from) is a pure  *)
(* function of the packet's bytes; ParseSpec applies it to the packets the  *)
(* kernel may hand over, whole, cut short or with a byte too many.          *)
(***************************************************************************)
EXTENDS Integers, Sequences, FiniteSets, TLC

VARIABLES
    initialized,  \* Session::initialized
    destroyed,    \* Session::destroyed
    proto_major,  \* Session::proto_major
    proto_minor,  \* Session::proto_minor
    pc,           \* pc[t]: where dispatch task t is suspended ("idle": no request)
    req,          \* req[t]: the request task t is dispatching
    step,         \* the step taken last: task, request, phase, awaited result, outcome
    sent,         \* the reply packets the last step wrote to the channel, in order
    called,       \* the filesystem callbacks the last step invoked, in order
    init_ok,      \* history: the dispatch of some INIT has ended with a success reply
    visible,      \* <<initialized, destroyed>> as stored when the last step wrote its
                  \* reply (as the step left them, if it wrote none)
    handles,      \* handles[t]: the reply handles the dispatch of task t's request has
                  \* made so far (of the dispatch the last step ended, for its task)
    packet,       \* the bytes of the packet read off the channel last
    parsed        \* what ll::Request::try_from made of packet ("none": not parsed yet)

vars == <<initialized, destroyed, proto_major, proto_minor, pc, req, step, sent, called,
          init_ok, visible, handles, packet, parsed>>

session == <<initialized, destroyed, proto_major, proto_minor>>

\* A step that stores nothing to the session
SessionUntouched ==
    /\ UNCHANGED session
    /\ visible' = <<initialized, destroyed>>

--------------------------------------------------------------------------
(* Bounds *)

\* Number of dispatch tasks that can be in flight at once.
NumTasks == 2

Tasks == 1..NumTasks

--------------------------------------------------------------------------
(* Program constants *)

EIO == 5
ENOSYS == 38
EPROTO == 71

\* FUSE_ASYNC_READ, the only flag supported off macOS
INIT_FLAGS == 1

\* The ABI version the implementation advertises (all abi-7-x features built in)
FUSE_KERNEL_VERSION == 7
FUSE_KERNEL_MINOR_VERSION == 19

MAX_WRITE_SIZE == 16777216

\* The bits of fuse_setattr_in.valid
FATTR_MODE == 1
FATTR_UID == 2
FATTR_GID == 4
FATTR_SIZE == 8
FATTR_ATIME == 16
FATTR_MTIME == 32
FATTR_FH == 64
MAX_BACKGROUND == 32
CONGESTION_THRESHOLD == 30

--------------------------------------------------------------------------
(* Operations *)

\* The variants of ll::Operation (a build off macOS with every abi-7-x feature)
Operations ==
    {"Lookup", "Forget", "GetAttr", "SetAttr", "ReadLink", "SymLink", "MkNod",
     "MkDir", "Unlink", "RmDir", "Rename", "Link", "Open", "Read", "Write",
     "StatFs", "Release", "FSync", "SetXAttr", "GetXAttr", "ListXAttr",
     "RemoveXAttr", "Flush", "Init", "OpenDir", "ReadDir", "ReleaseDir",
     "FSyncDir", "GetLk", "SetLk", "SetLkW", "Access", "Create", "Interrupt",
     "BMap", "Destroy", "IoCtl", "Poll", "NotifyReply", "BatchForget",
     "FAllocate", "CuseInit"}

\* Version-gated operations the dispatcher answers itself
UnsupportedOps ==
    {"IoCtl", "Poll", "NotifyReply", "BatchForget", "FAllocate", "CuseInit"}

\* The Filesystem method an arm calls (SetLk and SetLkW share setlk)
CallbackOf(op) ==
    CASE op = "Init"        -> "init"
      [] op = "Destroy"     -> "destroy"
      [] op = "Lookup"      -> "lookup"
      [] op = "Forget"      -> "forget"
      [] op = "GetAttr"     -> "getattr"
      [] op = "SetAttr"     -> "setattr"
      [] op = "ReadLink"    -> "readlink"
      [] op = "MkNod"       -> "mknod"
      [] op = "MkDir"       -> "mkdir"
      [] op = "Unlink"      -> "unlink"
      [] op = "RmDir"       -> "rmdir"
      [] op = "SymLink"     -> "symlink"
      [] op = "Rename"      -> "rename"
      [] op = "Link"        -> "link"
      [] op = "Open"        -> "open"
      [] op = "Read"        -> "read"
      [] op = "Write"       -> "write"
      [] op = "Flush"       -> "flush"
      [] op = "Release"     -> "release"
      [] op = "FSync"       -> "fsync"
      [] op = "OpenDir"     -> "opendir"
      [] op = "ReadDir"     -> "readdir"
      [] op = "ReleaseDir"  -> "releasedir"
      [] op = "FSyncDir"    -> "fsyncdir"
      [] op = "StatFs"      -> "statfs"
      [] op = "SetXAttr"    -> "setxattr"
      [] op = "GetXAttr"    -> "getxattr"
      [] op = "ListXAttr"   -> "listxattr"
      [] op = "RemoveXAttr" -> "removexattr"
      [] op = "Access"      -> "access"
      [] op = "Create"      -> "create"
      [] op = "GetLk"       -> "getlk"
      [] op = "SetLk"       -> "setlk"
      [] op = "SetLkW"      -> "setlk"
      [] op = "BMap"        -> "bmap"
      [] OTHER              -> "none"

--------------------------------------------------------------------------
(* Requests *)

NoArg == [none |-> TRUE]

NoReq == [op |-> "none", unique |-> 0, nodeid |-> 0, arg |-> NoArg]

\* fuse_init_in values the kernel may send: the fixture of the parser's tests
\* (7.8, readahead 4096), the oldest accepted version, a newer major with a
\* small minor, and two versions that are too old.
InitArgs ==
    {[major |-> 7, minor |-> 8, max_readahead |-> 4096, flags |-> 3],
     [major |-> 7, minor |-> 6, max_readahead |-> 0,    flags |-> 2],
     [major |-> 8, minor |-> 5, max_readahead |-> 4096, flags |-> 2],
     [major |-> 7, minor |-> 5, max_readahead |-> 4096, flags |-> 3],
     [major |-> 6, minor |-> 8, max_readahead |-> 0,    flags |-> 3]}

\* fuse_write_in.size / fuse_setxattr_in.size and the length of the trailing
\* data the parser fetched with fetch_all: nothing makes them agree.
DataArgs ==
    {[size |-> 1, len |-> 1], [size |-> 1, len |-> 2], [size |-> 2, len |-> 1]}

\* fuse_setattr_in: no bit of valid set, uid/size/mtime set, and
\* mode/gid/atime/fh set together with the bits 28..30 that only macOS reads
\* (FATTR_CRTIME, FATTR_CHGTIME, FATTR_BKUPTIME)
SetAttrArgs ==
    {[valid |-> v, mode |-> 420, uid |-> 1000, gid |-> 100, size |-> 5,
      atime |-> 7, atimensec |-> 9, mtime |-> 8, mtimensec |-> 10, fh |-> 3] :
        v \in {0, 42, 85 + 268435456 + 536870912 + 1073741824}}

\* fuse_forget_in.nlookup
ForgetArgs == {[nlookup |-> 1], [nlookup |-> 2]}

\* fuse_interrupt_in.unique: the unique id of the request to interrupt
InterruptArgs == {[unique |-> u] : u \in Tasks}

\* The operations the dispatched requests are drawn from: every arm of the
\* match that differs in shape, and a few of the arms that only forward.
DispatchedOps ==
    Operations \cap
        ({"Init", "Destroy", "Interrupt", "Forget", "Lookup", "GetAttr",
          "SetAttr", "Write", "SetXAttr", "ReadDir", "SetLkW"} \cup UnsupportedOps)

ArgsOf(op) ==
    CASE op = "Init"                  -> InitArgs
      [] op \in {"Write", "SetXAttr"} -> DataArgs
      [] op = "Forget"                -> ForgetArgs
      [] op = "SetAttr"               -> SetAttrArgs
      [] op = "Interrupt"             -> InterruptArgs
      [] OTHER                        -> {NoArg}

\* fuse_in_header.nodeid: the root node, and for the one arm whose forwarded
\* node id a property reads, a second node.
NodeIdsOf(op) == IF op = "Forget" THEN {1, 2} ELSE {1}

\* The kernel gives every concurrent request its own unique id and reuses it
\* once the request has completed: the request of task t carries t.
UniqueOf(t) == t

Requests(t) ==
    UNION {{[op |-> o, unique |-> UniqueOf(t), nodeid |-> n, arg |-> a] :
               n \in NodeIdsOf(o), a \in ArgsOf(o)} :
           o \in DispatchedOps}

\* Errors a filesystem callback may hand back (ENOENT, EACCES)
FsErrnos == {2, 13}

\* What an awaited callback returns: 0 for Ok(()), an errno for Err(errno)
FsResults == {0} \cup FsErrnos

--------------------------------------------------------------------------
(* Replies *)

RECURSIVE BitAnd(_, _)
\* The bitwise and of two naturals
BitAnd(a, b) ==
    IF a = 0 \/ b = 0 THEN 0
    ELSE (a % 2) * (b % 2) + 2 * BitAnd(a \div 2, b \div 2)

NoPayload == [kind |-> "none"]

\* The place of the reply handle in a callback that is given none
NoHandle == [unique |-> 0]

\* RequestReply with the handle bound to the header's node id
RequestReplyByNode(r) == [unique |-> r.nodeid]

\* Request::reply: the reply handle of request r, Reply::new(unique, ch)
RequestReply(r) == [unique |-> r.unique]

\* The handle of the ReadDir arm: ReplyDirectory::new(unique, ch, size)
ReplyDirectoryNew(r) == [unique |-> r.unique]

\* The reply handle made for request r, by the dispatcher for its own
\* replies and for the callback it forwards to
HandleOf(r) == IF r.op = "ReadDir" THEN ReplyDirectoryNew(r) ELSE RequestReply(r)

\* reply.error(err) on the reply handle of request r
ReplyError(r, err) ==
    [unique |-> HandleOf(r).unique, error |-> err, payload |-> NoPayload]

\* reply.ok(payload) on the reply handle of request r
ReplyOk(r, payload) ==
    [unique |-> HandleOf(r).unique, error |-> 0, payload |-> payload]

\* InitOut with the kernel's flags echoed back unmasked
InitOutAllFlags(arg) ==
    [kind                 |-> "fuse_init_out",
     major                |-> FUSE_KERNEL_VERSION,
     minor                |-> FUSE_KERNEL_MINOR_VERSION,
     max_readahead        |-> arg.max_readahead,
     flags                |-> arg.flags,
     max_write            |-> MAX_WRITE_SIZE,
     max_background       |-> MAX_BACKGROUND,
     congestion_threshold |-> CONGESTION_THRESHOLD]

\* The fuse_init_out the dispatcher composes for an accepted INIT
InitOut(arg) ==
    [kind                 |-> "fuse_init_out",
     major                |-> FUSE_KERNEL_VERSION,
     minor                |-> FUSE_KERNEL_MINOR_VERSION,
     max_readahead        |-> arg.max_readahead,
     flags                |-> BitAnd(arg.flags, INIT_FLAGS),
     max_write            |-> MAX_WRITE_SIZE,
     max_background       |-> MAX_BACKGROUND,
     congestion_threshold |-> CONGESTION_THRESHOLD]

\* What a filesystem callback answers through its reply handle when it succeeds
DataPayload == [kind |-> "data"]

\* The invocation of Filesystem method cb for request r; handle: whether a
\* reply handle is passed
Call(cb, r, handle) == [cb |-> cb, unique |-> r.unique, handle |-> handle]

\* The invocation of a Filesystem method that takes arguments besides the
\* request: args are the values the arm forwards
CallWith(cb, r, reply, args) ==
    [cb |-> cb, unique |-> r.unique, handle |-> reply # NoHandle, reply |-> reply,
     args |-> args]

\* Option: None, Some(v)
None == [some |-> FALSE]
Some(v) == [some |-> TRUE, val |-> v]

\* match valid & bit { 0 => None, _ => Some(v) }
Opt(valid, bit, v) == IF BitAnd(valid, bit) = 0 THEN None ELSE Some(v)

\* SetAttrForward with gid projected by the bit of uid
SetAttrForwardGidByUid(r) ==
    [nodeid   |-> r.nodeid,
     mode     |-> Opt(r.arg.valid, FATTR_MODE, r.arg.mode),
     uid      |-> Opt(r.arg.valid, FATTR_UID, r.arg.uid),
     gid      |-> Opt(r.arg.valid, FATTR_UID, r.arg.gid),
     size     |-> Opt(r.arg.valid, FATTR_SIZE, r.arg.size),
     atime    |-> Opt(r.arg.valid, FATTR_ATIME, <<r.arg.atime, r.arg.atimensec>>),
     mtime    |-> Opt(r.arg.valid, FATTR_MTIME, <<r.arg.mtime, r.arg.mtimensec>>),
     fh       |-> Opt(r.arg.valid, FATTR_FH, r.arg.fh),
     crtime   |-> None,
     chgtime  |-> None,
     bkuptime |-> None,
     flags    |-> None]

\* The values the SetAttr arm passes to setattr: each optional one by its
\* bit of arg.valid; off macOS get_macos_setattr gives four None
SetAttrForward(r) ==
    [nodeid   |-> r.nodeid,
     mode     |-> Opt(r.arg.valid, FATTR_MODE, r.arg.mode),
     uid      |-> Opt(r.arg.valid, FATTR_UID, r.arg.uid),
     gid      |-> Opt(r.arg.valid, FATTR_GID, r.arg.gid),
     size     |-> Opt(r.arg.valid, FATTR_SIZE, r.arg.size),
     atime    |-> Opt(r.arg.valid, FATTR_ATIME, <<r.arg.atime, r.arg.atimensec>>),
     mtime    |-> Opt(r.arg.valid, FATTR_MTIME, <<r.arg.mtime, r.arg.mtimensec>>),
     fh       |-> Opt(r.arg.valid, FATTR_FH, r.arg.fh),
     crtime   |-> None,
     chgtime  |-> None,
     bkuptime |-> None,
     flags    |-> None]

\* The values an arm that only forwards passes to its callback besides the
\* request and the reply handle
ForwardedArgs(r) ==
    IF r.op = "SetAttr" THEN SetAttrForward(r) ELSE [nodeid |-> r.nodeid]

--------------------------------------------------------------------------
(* Request::dispatch *)

\* VersionTooOld without the check of the minor version
VersionTooOldMajorOnly(arg) ==
    arg.major < 7

\* We don't support ABI versions before 7.6
VersionTooOld(arg) ==
    arg.major < 7 \/ (arg.major = 7 /\ arg.minor < 6)

\* ArmOf without the guard on initialized
ArmOfNoInitGuard(r) ==
    IF r.op = "Init" THEN "Init"
    ELSE IF r.op = "Destroy" THEN "Destroy"
    ELSE IF destroyed THEN "AfterDestroy"
    ELSE IF r.op = "Interrupt" THEN "Interrupt"
    ELSE IF r.op = "Forget" THEN "Forget"
    ELSE IF r.op \in {"Write", "SetXAttr"} THEN "Data"
    ELSE IF r.op \in UnsupportedOps THEN "Unsupported"
    ELSE "Callback"

\* ArmOf without the guard on destroyed
ArmOfNoDestroyedGuard(r) ==
    IF r.op = "Init" THEN "Init"
    ELSE IF ~initialized THEN "BeforeInit"
    ELSE IF r.op = "Destroy" THEN "Destroy"
    ELSE IF r.op = "Interrupt" THEN "Interrupt"
    ELSE IF r.op = "Forget" THEN "Forget"
    ELSE IF r.op \in {"Write", "SetXAttr"} THEN "Data"
    ELSE IF r.op \in UnsupportedOps THEN "Unsupported"
    ELSE "Callback"

\* ArmOf with the Destroy arm ahead of the guard on initialized
ArmOfDestroyFirst(r) ==
    IF r.op = "Init" THEN "Init"
    ELSE IF r.op = "Destroy" THEN "Destroy"
    ELSE IF ~initialized THEN "BeforeInit"
    ELSE IF destroyed THEN "AfterDestroy"
    ELSE IF r.op = "Interrupt" THEN "Interrupt"
    ELSE IF r.op = "Forget" THEN "Forget"
    ELSE IF r.op \in {"Write", "SetXAttr"} THEN "Data"
    ELSE IF r.op \in UnsupportedOps THEN "Unsupported"
    ELSE "Callback"

\* The arm of the match that request r takes: the first whose pattern and
\* guard hold, in the order of the source.
ArmOf(r) ==
    IF r.op = "Init" THEN "Init"
    ELSE IF ~initialized THEN "BeforeInit"
    ELSE IF r.op = "Destroy" THEN "Destroy"
    ELSE IF destroyed THEN "AfterDestroy"
    ELSE IF r.op = "Interrupt" THEN "Interrupt"
    ELSE IF r.op = "Forget" THEN "Forget"
    ELSE IF r.op \in {"Write", "SetXAttr"} THEN "Data"
    ELSE IF r.op \in UnsupportedOps THEN "Unsupported"
    ELSE "Callback"

\* The step of task t calls Request::reply n times: each call makes one reply
\* handle; a task that starts a dispatch starts counting anew
MakesHandles(t, n) ==
    handles' = [u \in Tasks |->
                   IF u = t THEN (IF pc[t] = "idle" THEN 0 ELSE handles[t]) + n
                   ELSE IF pc[u] = "idle" THEN 0 ELSE handles[u]]

\* Task t leaves dispatch: the future of request r is complete
Finish(t, r, phase, awaited, done) ==
    /\ pc' = [pc EXCEPT ![t] = "idle"]
    /\ req' = [req EXCEPT ![t] = NoReq]
    /\ step' = [task |-> t, req |-> r, phase |-> phase, awaited |-> awaited,
                done |-> done]
    /\ init_ok' = (init_ok \/ (r.op = "Init" /\ phase = "resume" /\ awaited = 0))
    /\ UNCHANGED <<packet, parsed>>

\* Task t suspends at the await of a filesystem callback
Suspend(t, r, at) ==
    /\ pc' = [pc EXCEPT ![t] = at]
    /\ req' = [req EXCEPT ![t] = r]
    /\ step' = [task |-> t, req |-> r, phase |-> "dispatch", awaited |-> 0,
                done |-> "suspended"]
    /\ UNCHANGED <<init_ok, packet, parsed>>

\* The dispatcher answers request r itself with an error and returns
RejectWith(t, r, err) ==
    /\ MakesHandles(t, 1)
    /\ sent' = <<ReplyError(r, err)>>
    /\ called' = <<>>
    /\ SessionUntouched
    /\ Finish(t, r, "dispatch", 0, "returned")

\* DispatchInit with the version stored before it is checked
DispatchInitStoresFirst(t, r) ==
    /\ pc[t] = "idle"
    /\ ArmOf(r) = "Init"
    /\ MakesHandles(t, 1)
    /\ proto_major' = r.arg.major
    /\ proto_minor' = r.arg.minor
    /\ UNCHANGED <<initialized, destroyed>>
    /\ visible' = <<initialized, destroyed>>
    /\ IF VersionTooOld(r.arg)
       THEN /\ sent' = <<ReplyError(r, EPROTO)>>
            /\ called' = <<>>
            /\ Finish(t, r, "dispatch", 0, "returned")
       ELSE /\ called' = <<Call("init", r, FALSE)>>
            /\ sent' = <<>>
            /\ Suspend(t, r, "init")

\* DispatchInit with initialized stored before the init callback is awaited
DispatchInitMarksEarly(t, r) ==
    /\ pc[t] = "idle"
    /\ ArmOf(r) = "Init"
    /\ IF VersionTooOld(r.arg)
       THEN RejectWith(t, r, EPROTO)
       ELSE /\ MakesHandles(t, 1)
            /\ proto_major' = r.arg.major
            /\ proto_minor' = r.arg.minor
            /\ initialized' = TRUE
            /\ called' = <<Call("init", r, FALSE)>>
            /\ sent' = <<>>
            /\ UNCHANGED destroyed
            /\ visible' = <<TRUE, destroyed>>
            /\ Suspend(t, r, "init")

\* DispatchInit storing the minor version only while none is stored
DispatchInitMinorOnce(t, r) ==
    /\ pc[t] = "idle"
    /\ ArmOf(r) = "Init"
    /\ IF VersionTooOld(r.arg)
       THEN RejectWith(t, r, EPROTO)
       ELSE /\ MakesHandles(t, 1)
            /\ proto_major' = r.arg.major
            /\ proto_minor' = IF proto_minor = 0 THEN r.arg.minor ELSE proto_minor
            /\ called' = <<Call("init", r, FALSE)>>
            /\ sent' = <<>>
            /\ UNCHANGED <<initialized, destroyed>>
            /\ visible' = <<initialized, destroyed>>
            /\ Suspend(t, r, "init")

\* Operation::Init, up to the await of the init callback
DispatchInit(t, r) ==
    /\ pc[t] = "idle"
    /\ ArmOf(r) = "Init"
    /\ IF VersionTooOld(r.arg)
       THEN RejectWith(t, r, EPROTO)
       ELSE /\ MakesHandles(t, 1)
            /\ proto_major' = r.arg.major
            /\ proto_minor' = r.arg.minor
            /\ called' = <<Call("init", r, FALSE)>>
            /\ sent' = <<>>
            /\ UNCHANGED <<initialized, destroyed>>
            /\ visible' = <<initialized, destroyed>>
            /\ Suspend(t, r, "init")

\* InitFailed with the initialized flag reset after the failed callback
InitFailedClears(t, res) ==
    /\ sent' = <<ReplyError(req[t], res)>>
    /\ initialized' = FALSE
    /\ visible' = <<FALSE, destroyed>>
    /\ UNCHANGED <<destroyed, proto_major, proto_minor>>

\* InitFailed answering EIO whatever the callback returned
InitFailedEIO(t, res) ==
    /\ sent' = <<ReplyError(req[t], EIO)>>
    /\ SessionUntouched

\* Operation::Init, the init callback returned Err(res)
InitFailed(t, res) ==
    /\ sent' = <<ReplyError(req[t], res)>>
    /\ SessionUntouched

\* InitSucceeded with the reply written before initialized is stored
InitSucceededRepliesFirst(t) ==
    /\ visible' = <<initialized, destroyed>>
    /\ sent' = <<ReplyOk(req[t], InitOut(req[t].arg))>>
    /\ initialized' = TRUE
    /\ UNCHANGED <<destroyed, proto_major, proto_minor>>

\* Operation::Init, the init callback returned Ok: initialized is stored,
\* then the reply is written
InitSucceeded(t) ==
    /\ initialized' = TRUE
    /\ visible' = <<TRUE, destroyed>>
    /\ sent' = <<ReplyOk(req[t], InitOut(req[t].arg))>>
    /\ UNCHANGED <<destroyed, proto_major, proto_minor>>

\* InitReturn making a second reply handle for the reply it writes
InitReturnSecondHandle(t, res) ==
    /\ pc[t] = "init"
    /\ MakesHandles(t, 1)
    /\ IF res # 0 THEN InitFailed(t, res) ELSE InitSucceeded(t)
    /\ called' = <<>>
    /\ Finish(t, req[t], "resume", res, "returned")

\* Operation::Init, from the return of the init callback to the end
InitReturn(t, res) ==
    /\ pc[t] = "init"
    /\ MakesHandles(t, 0)
    /\ IF res # 0 THEN InitFailed(t, res) ELSE InitSucceeded(t)
    /\ called' = <<>>
    /\ Finish(t, req[t], "resume", res, "returned")

\* DispatchBeforeInit forgetting the version an INIT in flight has stored
DispatchBeforeInitClearsVersion(t, r) ==
    /\ pc[t] = "idle"
    /\ ArmOf(r) = "BeforeInit"
    /\ MakesHandles(t, 1)
    /\ sent' = <<ReplyError(r, EIO)>>
    /\ called' = <<>>
    /\ proto_major' = 0
    /\ proto_minor' = 0
    /\ UNCHANGED <<initialized, destroyed>>
    /\ visible' = <<initialized, destroyed>>
    /\ Finish(t, r, "dispatch", 0, "returned")

\* Any operation is invalid before initialization
DispatchBeforeInit(t, r) ==
    /\ pc[t] = "idle"
    /\ ArmOf(r) = "BeforeInit"
    /\ RejectWith(t, r, EIO)

\* Operation::Destroy, up to the await of the destroy callback
DispatchDestroy(t, r) ==
    /\ pc[t] = "idle"
    /\ ArmOf(r) = "Destroy"
    /\ MakesHandles(t, 0)
    /\ called' = <<Call("destroy", r, FALSE)>>
    /\ sent' = <<>>
    /\ SessionUntouched
    /\ Suspend(t, r, "destroy")

\* DestroyReturn without the store to destroyed
DestroyReturnNoStore(t) ==
    /\ pc[t] = "destroy"
    /\ MakesHandles(t, 1)
    /\ sent' = <<ReplyOk(req[t], NoPayload)>>
    /\ called' = <<>>
    /\ SessionUntouched
    /\ Finish(t, req[t], "resume", 0, "returned")

\* Operation::Destroy, from the return of the destroy callback to the end
DestroyReturn(t) ==
    /\ pc[t] = "destroy"
    /\ MakesHandles(t, 1)
    /\ destroyed' = TRUE
    /\ visible' = <<initialized, TRUE>>
    /\ sent' = <<ReplyOk(req[t], NoPayload)>>
    /\ called' = <<>>
    /\ UNCHANGED <<initialized, proto_major, proto_minor>>
    /\ Finish(t, req[t], "resume", 0, "returned")

\* Any operation is invalid after destroy
DispatchAfterDestroy(t, r) ==
    /\ pc[t] = "idle"
    /\ ArmOf(r) = "AfterDestroy"
    /\ RejectWith(t, r, EIO)

\* DispatchInterrupt that also drops the in-flight request it names
DispatchInterruptCancels(t, r) ==
    /\ pc[t] = "idle"
    /\ ArmOf(r) = "Interrupt"
    /\ MakesHandles(t, 1)
    /\ sent' = <<ReplyError(r, ENOSYS)>>
    /\ called' = <<>>
    /\ SessionUntouched
    /\ pc' = [u \in Tasks |-> IF UniqueOf(u) = r.arg.unique THEN "idle" ELSE pc[u]]
    /\ req' = [u \in Tasks |-> IF UniqueOf(u) = r.arg.unique THEN NoReq ELSE req[u]]
    /\ step' = [task |-> t, req |-> r, phase |-> "dispatch", awaited |-> 0,
                done |-> "returned"]
    /\ UNCHANGED <<init_ok, packet, parsed>>

\* Operation::Interrupt
DispatchInterrupt(t, r) ==
    /\ pc[t] = "idle"
    /\ ArmOf(r) = "Interrupt"
    /\ RejectWith(t, r, ENOSYS)

\* DispatchUnsupported that returns without a reply
DispatchUnsupportedSilent(t, r) ==
    /\ pc[t] = "idle"
    /\ ArmOf(r) = "Unsupported"
    /\ MakesHandles(t, 0)
    /\ sent' = <<>>
    /\ called' = <<>>
    /\ SessionUntouched
    /\ Finish(t, r, "dispatch", 0, "returned")

\* Operation::IoCtl, Poll, NotifyReply, BatchForget, FAllocate, CuseInit
DispatchUnsupported(t, r) ==
    /\ pc[t] = "idle"
    /\ ArmOf(r) = "Unsupported"
    /\ RejectWith(t, r, ENOSYS)

\* DispatchForget with the two arguments of forget swapped
DispatchForgetSwapped(t, r) ==
    /\ pc[t] = "idle"
    /\ ArmOf(r) = "Forget"
    /\ MakesHandles(t, 0)
    /\ called' = <<CallWith("forget", r, NoHandle,
                            [nodeid |-> r.arg.nlookup, nlookup |-> r.nodeid])>>
    /\ sent' = <<>>
    /\ SessionUntouched
    /\ Suspend(t, r, "forget")

\* Operation::Forget, up to the await of the forget callback (no reply handle)
DispatchForget(t, r) ==
    /\ pc[t] = "idle"
    /\ ArmOf(r) = "Forget"
    /\ MakesHandles(t, 0)
    /\ called' = <<CallWith("forget", r, NoHandle,
                            [nodeid |-> r.nodeid, nlookup |-> r.arg.nlookup])>>
    /\ sent' = <<>>
    /\ SessionUntouched
    /\ Suspend(t, r, "forget")

\* Operation::Forget, the forget callback returned: no reply
ForgetReturn(t) ==
    /\ pc[t] = "forget"
    /\ MakesHandles(t, 0)
    /\ sent' = <<>>
    /\ called' = <<>>
    /\ SessionUntouched
    /\ Finish(t, req[t], "resume", 0, "returned")

\* The arms that forward to a callback with a reply handle, up to the await
DispatchCallback(t, r) ==
    /\ pc[t] = "idle"
    /\ ArmOf(r) = "Callback"
    /\ MakesHandles(t, 1)
    /\ called' = <<CallWith(CallbackOf(r.op), r, HandleOf(r), ForwardedArgs(r))>>
    /\ sent' = <<>>
    /\ SessionUntouched
    /\ Suspend(t, r, "callback")

\* DispatchData without the assertion
DispatchDataNoAssert(t, r) ==
    /\ pc[t] = "idle"
    /\ ArmOf(r) = "Data"
    /\ MakesHandles(t, 1)
    /\ SessionUntouched
    /\ sent' = <<>>
    /\ called' = <<CallWith(CallbackOf(r.op), r, HandleOf(r),
                            [nodeid |-> r.nodeid, data_len |-> r.arg.len])>>
    /\ Suspend(t, r, "callback")

\* Operation::Write and Operation::SetXAttr: assert!(data.len() == arg.size),
\* then forward; a failed assertion panics the task before any reply handle
\* is made.
DispatchData(t, r) ==
    /\ pc[t] = "idle"
    /\ ArmOf(r) = "Data"
    /\ SessionUntouched
    /\ sent' = <<>>
    /\ IF r.arg.len = r.arg.size
       THEN /\ called' = <<CallWith(CallbackOf(r.op), r, HandleOf(r),
                                    [nodeid |-> r.nodeid, data_len |-> r.arg.len])>>
            /\ MakesHandles(t, 1)
            /\ Suspend(t, r, "callback")
       ELSE /\ called' = <<>>
            /\ MakesHandles(t, 0)
            /\ Finish(t, r, "dispatch", 0, "panicked")

\* A callback that was given a reply handle returns, having consumed the
\* handle with ok (res = 0) or error (res an errno); the task ends.
CallbackReturn(t, res) ==
    /\ pc[t] = "callback"
    /\ MakesHandles(t, 0)
    /\ sent' = <<IF res = 0 THEN ReplyOk(req[t], DataPayload)
                 ELSE ReplyError(req[t], res)>>
    /\ called' = <<>>
    /\ SessionUntouched
    /\ Finish(t, req[t], "resume", res, "returned")

--------------------------------------------------------------------------
(* ll::Request::try_from: bytes and the argument cursor *)

RECURSIVE FromLE(_)
\* The integer a little-endian host reads from the bytes b of a u32 or u64
FromLE(b) == IF b = <<>> THEN 0 ELSE Head(b) + 256 * FromLE(Tail(b))

RECURSIVE ToLE(_, _)
\* The k bytes the kernel of a little-endian host writes for the integer n
ToLE(n, k) == IF k = 0 THEN <<>> ELSE <<n % 256>> \o ToLE(n \div 256, k - 1)

Zeros(k) == [i \in 1..k |-> 0]

\* mem::size_of of the fuse_abi structs, which grow with the ABI version the
\* build selects
SizeOf(T) ==
    CASE T = "fuse_in_header"    -> 40
      [] T = "fuse_forget_in"    -> 8
      [] T = "fuse_forget_one"   -> 16
      [] T = "fuse_setattr_in"   -> 88
      [] T = "fuse_mknod_in"     -> IF FUSE_KERNEL_MINOR_VERSION >= 12 THEN 16 ELSE 8
      [] T = "fuse_mkdir_in"     -> 8
      [] T = "fuse_rename_in"    -> 8
      [] T = "fuse_link_in"      -> 8
      [] T = "fuse_open_in"      -> 8
      [] T = "fuse_read_in"      -> IF FUSE_KERNEL_MINOR_VERSION >= 9 THEN 40 ELSE 24
      [] T = "fuse_write_in"     -> IF FUSE_KERNEL_MINOR_VERSION >= 9 THEN 40 ELSE 24
      [] T = "fuse_release_in"   -> 24
      [] T = "fuse_fsync_in"     -> 16
      [] T = "fuse_setxattr_in"  -> 8
      [] T = "fuse_getxattr_in"  -> 8
      [] T = "fuse_flush_in"     -> 24
      [] T = "fuse_init_in"      -> 16
      [] T = "fuse_lk_in"        -> IF FUSE_KERNEL_MINOR_VERSION >= 9 THEN 48 ELSE 40
      [] T = "fuse_access_in"    -> 8
      [] T = "fuse_create_in"    -> IF FUSE_KERNEL_MINOR_VERSION >= 12 THEN 16 ELSE 8
      [] T = "fuse_interrupt_in" -> 8
      [] T = "fuse_bmap_in"      -> 16
      [] T = "fuse_ioctl_in"     -> 32
      [] T = "fuse_poll_in"      -> 24
      [] T = "fuse_fallocate_in" -> 32

\* ArgumentIterator::len: the bytes the cursor d has left
IteratorLen(d) == Len(d)

\* ArgumentIterator::fetch::<T>: the next size bytes, if that many are left;
\* a failed fetch consumes nothing
Fetch(d, size) ==
    IF Len(d) < size
    THEN [ok |-> FALSE, val |-> <<>>, rest |-> d]
    ELSE [ok |-> TRUE, val |-> SubSeq(d, 1, size), rest |-> SubSeq(d, size + 1, Len(d))]

\* The position of the first NUL byte of d, 0 if it has none
NulAt(d) ==
    LET z == {i \in 1..Len(d) : d[i] = 0}
    IN  IF z = {} THEN 0 ELSE CHOOSE i \in z : \A j \in z : i <= j

\* ArgumentIterator::fetch_str: the bytes before the next NUL, consumed with it
FetchStr(d) ==
    IF NulAt(d) = 0
    THEN [ok |-> FALSE, val |-> <<>>, rest |-> d]
    ELSE [ok |-> TRUE, val |-> SubSeq(d, 1, NulAt(d) - 1),
          rest |-> SubSeq(d, NulAt(d) + 1, Len(d))]

\* ArgumentIterator::fetch_all: every byte left
FetchAll(d) == [ok |-> TRUE, val |-> d, rest |-> <<>>]

RECURSIVE FetchMany(_, _)
\* while let Some(node) = data.fetch(): records of size bytes until a fetch fails
FetchMany(d, size) ==
    IF ~Fetch(d, size).ok
    THEN [ok |-> TRUE, val |-> <<>>, rest |-> d]
    ELSE [ok |-> TRUE,
          val |-> <<Fetch(d, size).val>> \o FetchMany(Fetch(d, size).rest, size).val,
          rest |-> FetchMany(Fetch(d, size).rest, size).rest]

--------------------------------------------------------------------------
(* ll::Request::try_from: Operation::parse *)

\* The elements an operation's arguments are fetched as, each into a field
Arg(T) == [field |-> "arg", kind |-> "struct", of |-> T]
Str(f) == [field |-> f, kind |-> "str", of |-> "u8"]
All(f) == [field |-> f, kind |-> "all", of |-> "u8"]
Many(f, T) == [field |-> f, kind |-> "many", of |-> T]

\* The fetches of each arm of Operation::parse, in order
Schema(op) ==
    CASE op = "Lookup"      -> <<Str("name")>>
      [] op = "Forget"      -> <<Arg("fuse_forget_in")>>
      [] op = "GetAttr"     -> <<>>
      [] op = "SetAttr"     -> <<Arg("fuse_setattr_in")>>
      [] op = "ReadLink"    -> <<>>
      [] op = "SymLink"     -> <<Str("name"), Str("link")>>
      [] op = "MkNod"       -> <<Arg("fuse_mknod_in"), Str("name")>>
      [] op = "MkDir"       -> <<Arg("fuse_mkdir_in"), Str("name")>>
      [] op = "Unlink"      -> <<Str("name")>>
      [] op = "RmDir"       -> <<Str("name")>>
      [] op = "Rename"      -> <<Arg("fuse_rename_in"), Str("name"), Str("newname")>>
      [] op = "Link"        -> <<Arg("fuse_link_in"), Str("name")>>
      [] op = "Open"        -> <<Arg("fuse_open_in")>>
      [] op = "Read"        -> <<Arg("fuse_read_in")>>
      [] op = "Write"       -> <<Arg("fuse_write_in"), All("data")>>
      [] op = "StatFs"      -> <<>>
      [] op = "Release"     -> <<Arg("fuse_release_in")>>
      [] op = "FSync"       -> <<Arg("fuse_fsync_in")>>
      [] op = "SetXAttr"    -> <<Arg("fuse_setxattr_in"), Str("name"), All("value")>>
      [] op = "GetXAttr"    -> <<Arg("fuse_getxattr_in"), Str("name")>>
      [] op = "ListXAttr"   -> <<Arg("fuse_getxattr_in")>>
      [] op = "RemoveXAttr" -> <<Str("name")>>
      [] op = "Flush"       -> <<Arg("fuse_flush_in")>>
      [] op = "Init"        -> <<Arg("fuse_init_in")>>
      [] op = "OpenDir"     -> <<Arg("fuse_open_in")>>
      [] op = "ReadDir"     -> <<Arg("fuse_read_in")>>
      [] op = "ReleaseDir"  -> <<Arg("fuse_release_in")>>
      [] op = "FSyncDir"    -> <<Arg("fuse_fsync_in")>>
      [] op = "GetLk"       -> <<Arg("fuse_lk_in")>>
      [] op = "SetLk"       -> <<Arg("fuse_lk_in")>>
      [] op = "SetLkW"      -> <<Arg("fuse_lk_in")>>
      [] op = "Access"      -> <<Arg("fuse_access_in")>>
      [] op = "Create"      -> <<Arg("fuse_create_in"), Str("name")>>
      [] op = "Interrupt"   -> <<Arg("fuse_interrupt_in")>>
      [] op = "BMap"        -> <<Arg("fuse_bmap_in")>>
      [] op = "Destroy"     -> <<>>
      [] op = "IoCtl"       -> <<Arg("fuse_ioctl_in"), All("data")>>
      [] op = "Poll"        -> <<Arg("fuse_poll_in")>>
      [] op = "NotifyReply" -> <<All("data")>>
      [] op = "BatchForget" -> <<Arg("fuse_forget_in"), Many("nodes", "fuse_forget_one")>>
      [] op = "FAllocate"   -> <<Arg("fuse_fallocate_in")>>
      [] op = "CuseInit"    -> <<Arg("fuse_init_in")>>

\* One fetch of Operation::parse on the cursor d
FetchField(e, d) ==
    CASE e.kind = "struct" -> Fetch(d, SizeOf(e.of))
      [] e.kind = "str"    -> FetchStr(d)
      [] e.kind = "all"    -> FetchAll(d)
      [] e.kind = "many"   -> FetchMany(d, SizeOf(e.of))

NoFields == [f \in {} |-> <<>>]

RECURSIVE ParseFieldsLenient(_, _, _)
\* The fetches of schema in order, a fetch that fails leaving its field empty
ParseFieldsLenient(schema, d, got) ==
    IF schema = <<>>
    THEN [ok |-> TRUE, fields |-> got]
    ELSE ParseFieldsLenient(Tail(schema), FetchField(Head(schema), d).rest,
                            got @@ (Head(schema).field :> FetchField(Head(schema), d).val))

RECURSIVE ParseFields(_, _, _)
\* The fetches of schema in order, each followed by `?`: the first that
\* fails ends the parse
ParseFields(schema, d, got) ==
    IF schema = <<>>
    THEN [ok |-> TRUE, fields |-> got]
    ELSE IF ~FetchField(Head(schema), d).ok
         THEN [ok |-> FALSE, fields |-> got]
         ELSE ParseFields(Tail(schema), FetchField(Head(schema), d).rest,
                          got @@ (Head(schema).field :> FetchField(Head(schema), d).val))

\* Operation::parse: the operation of opcode op and its fields, or None
OperationParse(op, d) ==
    [ok        |-> ParseFields(Schema(op), d, NoFields).ok,
     operation |-> [op |-> op, fields |-> ParseFields(Schema(op), d, NoFields).fields]]

\* The value of the member of the struct T held in the bytes b
Member(T, member, b) ==
    CASE T = "fuse_init_in" /\ member = "major"         -> FromLE(SubSeq(b, 1, 4))
      [] T = "fuse_init_in" /\ member = "minor"         -> FromLE(SubSeq(b, 5, 8))
      [] T = "fuse_init_in" /\ member = "max_readahead" -> FromLE(SubSeq(b, 9, 12))
      [] T = "fuse_init_in" /\ member = "flags"         -> FromLE(SubSeq(b, 13, 16))
      [] T = "fuse_forget_in" /\ member = "nlookup"     -> FromLE(SubSeq(b, 1, 8))
      [] T = "fuse_mknod_in" /\ member = "mode"         -> FromLE(SubSeq(b, 1, 4))
      [] T = "fuse_mknod_in" /\ member = "rdev"         -> FromLE(SubSeq(b, 5, 8))
      [] T = "fuse_interrupt_in" /\ member = "unique"   -> FromLE(SubSeq(b, 1, 8))
      [] T = "fuse_write_in" /\ member = "size"         -> FromLE(SubSeq(b, 17, 20))
      [] T = "fuse_setxattr_in" /\ member = "size"      -> FromLE(SubSeq(b, 1, 4))

--------------------------------------------------------------------------
(* ll::Request::try_from *)

\* The fuse_in_header read from its bytes b
DecodeHeader(b) ==
    [len     |-> FromLE(SubSeq(b, 1, 4)),
     opcode  |-> FromLE(SubSeq(b, 5, 8)),
     unique  |-> FromLE(SubSeq(b, 9, 16)),
     nodeid  |-> FromLE(SubSeq(b, 17, 24)),
     uid     |-> FromLE(SubSeq(b, 25, 28)),
     gid     |-> FromLE(SubSeq(b, 29, 32)),
     pid     |-> FromLE(SubSeq(b, 33, 36)),
     padding |-> FromLE(SubSeq(b, 37, 40))]

\* fuse_opcode::try_from: the operation of a known opcode
OpcodeOf(n) ==
    CASE n = 1    -> "Lookup"
      [] n = 2    -> "Forget"
      [] n = 3    -> "GetAttr"
      [] n = 4    -> "SetAttr"
      [] n = 5    -> "ReadLink"
      [] n = 6    -> "SymLink"
      [] n = 8    -> "MkNod"
      [] n = 9    -> "MkDir"
      [] n = 10   -> "Unlink"
      [] n = 11   -> "RmDir"
      [] n = 12   -> "Rename"
      [] n = 13   -> "Link"
      [] n = 14   -> "Open"
      [] n = 15   -> "Read"
      [] n = 16   -> "Write"
      [] n = 17   -> "StatFs"
      [] n = 18   -> "Release"
      [] n = 20   -> "FSync"
      [] n = 21   -> "SetXAttr"
      [] n = 22   -> "GetXAttr"
      [] n = 23   -> "ListXAttr"
      [] n = 24   -> "RemoveXAttr"
      [] n = 25   -> "Flush"
      [] n = 26   -> "Init"
      [] n = 27   -> "OpenDir"
      [] n = 28   -> "ReadDir"
      [] n = 29   -> "ReleaseDir"
      [] n = 30   -> "FSyncDir"
      [] n = 31   -> "GetLk"
      [] n = 32   -> "SetLk"
      [] n = 33   -> "SetLkW"
      [] n = 34   -> "Access"
      [] n = 35   -> "Create"
      [] n = 36   -> "Interrupt"
      [] n = 37   -> "BMap"
      [] n = 38   -> "Destroy"
      [] n = 39   -> "IoCtl"
      [] n = 40   -> "Poll"
      [] n = 41   -> "NotifyReply"
      [] n = 42   -> "BatchForget"
      [] n = 43   -> "FAllocate"
      [] n = 4096 -> "CuseInit"
      [] OTHER    -> "Unknown"

\* A RequestError with its arguments (0 where the variant has fewer)
Err(e, a, b) == [ok |-> FALSE, err |-> e, a |-> a, b |-> b]

\* No parse result yet
NoParse == Err("none", 0, 0)

\* ShortReadHeaderError reporting the size of the header it wanted
ShortReadHeaderWanted(d) == Err("ShortReadHeader", SizeOf("fuse_in_header"), 0)

\* The error of a failed header fetch: ShortReadHeader(data.len()), data
\* being the cursor, which the failed fetch left whole
ShortReadHeaderError(d) == Err("ShortReadHeader", IteratorLen(d), 0)

\* ShortReadError with its two lengths swapped
ShortReadErrorSwapped(data_len, header) == Err("ShortRead", header.len, data_len)

\* The error of the size check: ShortRead(data_len, header.len)
ShortReadError(data_len, header) == Err("ShortRead", data_len, header.len)

\* try_from checking the length of the buffer before it decodes the opcode
ParseBodyLengthFirst(data_len, header, d) ==
    IF data_len < header.len
    THEN ShortReadError(data_len, header)
    ELSE IF OpcodeOf(header.opcode) = "Unknown" \/ OpcodeOf(header.opcode) \notin Operations
    THEN Err("UnknownOperation", header.opcode, 0)
    ELSE IF ~OperationParse(OpcodeOf(header.opcode), d).ok
    THEN Err("InsufficientData", 0, 0)
    ELSE [ok        |-> TRUE,
          header    |-> header,
          operation |-> OperationParse(OpcodeOf(header.opcode), d).operation]

\* What try_from does with the header it fetched and the cursor d behind it
ParseBody(data_len, header, d) ==
    IF OpcodeOf(header.opcode) = "Unknown" \/ OpcodeOf(header.opcode) \notin Operations
    THEN Err("UnknownOperation", header.opcode, 0)
    ELSE IF data_len < header.len
    THEN ShortReadError(data_len, header)
    ELSE IF ~OperationParse(OpcodeOf(header.opcode), d).ok
    THEN Err("InsufficientData", 0, 0)
    ELSE [ok        |-> TRUE,
          header    |-> header,
          operation |-> OperationParse(OpcodeOf(header.opcode), d).operation]

\* try_from with the argument cursor one byte past the end of the header
TryFromSkipsByte(data) ==
    IF ~Fetch(data, SizeOf("fuse_in_header")).ok
    THEN ShortReadHeaderError(Fetch(data, SizeOf("fuse_in_header")).rest)
    ELSE ParseBody(Len(data),
                   DecodeHeader(Fetch(data, SizeOf("fuse_in_header")).val),
                   Tail(Fetch(data, SizeOf("fuse_in_header")).rest \o <<0>>))

\* impl TryFrom<&[u8]> for Request
TryFrom(data) ==
    IF ~Fetch(data, SizeOf("fuse_in_header")).ok
    THEN ShortReadHeaderError(Fetch(data, SizeOf("fuse_in_header")).rest)
    ELSE ParseBody(Len(data),
                   DecodeHeader(Fetch(data, SizeOf("fuse_in_header")).val),
                   Fetch(data, SizeOf("fuse_in_header")).rest)

--------------------------------------------------------------------------
(* Packets the kernel driver may hand over *)

\* Largest number of data bytes a WRITE or SETXATTR packet carries, and
\* largest size its argument announces
MaxData == 2

\* The fuse_in_header of a packet of len bytes for opcode
Header(len, opcode, unique, nodeid) ==
    ToLE(len, 4) \o ToLE(opcode, 4) \o ToLE(unique, 8) \o ToLE(nodeid, 8)
        \o ToLE(1000, 4) \o ToLE(100, 4) \o ToLE(4242, 4) \o ToLE(0, 4)

\* n bytes of file or attribute data
Data(n) == [i \in 1..n |-> 100 + i]

\* "a", without its NUL
Name == <<97>>

\* The argument bytes that follow the header, by opcode: well-formed ones
\* (INIT, MKNOD with mode 0o644 and name "a", FORGET, INTERRUPT, POLL, the
\* opcodes without arguments), WRITE and SETXATTR with every pairing of
\* announced size and data carried, and a LOOKUP whose name lacks its NUL;
\* 44 is no opcode of ABI 7.19.
Bodies(opcode) ==
    CASE opcode = 26 ->
           {ToLE(a.major, 4) \o ToLE(a.minor, 4) \o ToLE(a.max_readahead, 4)
                \o ToLE(a.flags, 4) : a \in InitArgs}
      [] opcode = 8 ->
           {ToLE(420, 4) \o ToLE(5, 4) \o Zeros(SizeOf("fuse_mknod_in") - 8)
                \o Name \o <<0>>}
      [] opcode = 16 ->
           {ToLE(1, 8) \o ToLE(0, 8) \o ToLE(sz, 4)
                \o Zeros(SizeOf("fuse_write_in") - 20) \o Data(n) :
              sz \in 0..MaxData, n \in 0..MaxData}
      [] opcode = 21 ->
           {ToLE(sz, 4) \o ToLE(0, 4) \o Name \o <<0>> \o Data(n) :
              sz \in 0..MaxData, n \in 0..MaxData}
      [] opcode = 2 ->
           {ToLE(a.nlookup, 8) : a \in ForgetArgs}
      [] opcode = 36 ->
           {ToLE(a.unique, 8) : a \in InterruptArgs}
      [] opcode = 40 ->
           {Zeros(SizeOf("fuse_poll_in"))}
      [] opcode = 1 ->
           {Name \o <<0>>, Name}
      [] opcode = 42 ->
           {ToLE(n, 4) \o ToLE(0, 4)
                \o [i \in 1..(16 * n) |-> IF i % 8 = 1 THEN 1 ELSE 0] : n \in 0..1}
      [] opcode = 44 ->
           {<<>>, <<7, 7>>}
      [] OTHER -> {<<>>}

PacketOpcodes == {1, 2, 3, 5, 8, 16, 17, 21, 26, 36, 38, 40, 42, 44}

\* The packet the kernel writes for opcode with the argument bytes b: total
\* length in the header, unique 1, node 2
PacketOf(opcode, b) ==
    Header(SizeOf("fuse_in_header") + Len(b), opcode, 1, 2) \o b

\* The packets as the kernel writes them
Complete ==
    UNION {{PacketOf(o, b) : b \in Bodies(o)} : o \in PacketOpcodes}

\* What a read may yield of them: any prefix, and the whole packet with one
\* more byte behind it
Prefixes ==
    UNION {{SubSeq(p \o <<255>>, 1, n) : n \in 0..(Len(p) + 1)} : p \in Complete}

\* The bytes q with the total length field of their header set to l
WithLength(q, l) == ToLE(l, 4) \o SubSeq(q, 5, Len(q))

\* The byte slices try_from may be given: what a read yields, and the same
\* with a header that announces the bytes present, one byte less than a
\* header, or nothing
Packets ==
    Prefixes \cup
        UNION {{WithLength(q, l) : l \in {0, SizeOf("fuse_in_header") - 1, Len(q)}} :
               q \in {q \in Prefixes : Len(q) >= SizeOf("fuse_in_header")}}

--------------------------------------------------------------------------
(* Specification *)

\* A fresh session and no request in flight
Init ==
    /\ initialized = FALSE
    /\ destroyed = FALSE
    /\ proto_major = 0
    /\ proto_minor = 0
    /\ pc = [t \in Tasks |-> "idle"]
    /\ req = [t \in Tasks |-> NoReq]
    /\ step = [task |-> 0, req |-> NoReq, phase |-> "none", awaited |-> 0,
               done |-> "none"]
    /\ sent = <<>>
    /\ called = <<>>
    /\ init_ok = FALSE
    /\ visible = <<FALSE, FALSE>>
    /\ handles = [t \in Tasks |-> 0]
    /\ packet = <<>>
    /\ parsed = NoParse

\* A task takes a request off the channel and runs dispatch to its first await
Dispatch(t, r) ==
    \/ DispatchInit(t, r)
    \/ DispatchBeforeInit(t, r)
    \/ DispatchDestroy(t, r)
    \/ DispatchAfterDestroy(t, r)
    \/ DispatchInterrupt(t, r)
    \/ DispatchForget(t, r)
    \/ DispatchData(t, r)
    \/ DispatchUnsupported(t, r)
    \/ DispatchCallback(t, r)

\* An awaited callback returns and the task runs to its end
Resume(t) ==
    \/ \E res \in FsResults : InitReturn(t, res)
    \/ DestroyReturn(t)
    \/ ForgetReturn(t)
    \/ \E res \in FsResults : CallbackReturn(t, res)

Next ==
    \E t \in Tasks :
        \/ \E r \in Requests(t) : Dispatch(t, r)
        \/ Resume(t)

Spec == Init /\ [][Next]_vars

\* The states a session is in between requests: fresh, after a successful
\* INIT of version 7.8, and after the DESTROY that followed it
SessionPhases ==
    {[initialized |-> FALSE, destroyed |-> FALSE, proto_major |-> 0, proto_minor |-> 0],
     [initialized |-> TRUE,  destroyed |-> FALSE, proto_major |-> 7, proto_minor |-> 8],
     [initialized |-> TRUE,  destroyed |-> TRUE,  proto_major |-> 7, proto_minor |-> 8]}

\* One packet from the channel, not parsed yet, and the session it arrives at
ParseInit ==
    /\ \E s \in SessionPhases :
           /\ initialized = s.initialized
           /\ destroyed = s.destroyed
           /\ proto_major = s.proto_major
           /\ proto_minor = s.proto_minor
    /\ pc = [t \in Tasks |-> "idle"]
    /\ req = [t \in Tasks |-> NoReq]
    /\ step = [task |-> 0, req |-> NoReq, phase |-> "none", awaited |-> 0,
               done |-> "none"]
    /\ sent = <<>>
    /\ called = <<>>
    /\ init_ok = initialized
    /\ visible = <<initialized, destroyed>>
    /\ handles = [t \in Tasks |-> 0]
    /\ packet \in Packets
    /\ parsed = NoParse

\* Request::new answering the packet it could not parse with ENOSYS under
\* the unique id of its first bytes
ParseRepliesOnError ==
    /\ parsed = NoParse
    /\ parsed' = TryFrom(packet)
    /\ sent' = IF TryFrom(packet).ok THEN sent
               ELSE <<[unique |-> FromLE(SubSeq(packet \o Zeros(16), 9, 16)),
                       error |-> ENOSYS, payload |-> NoPayload]>>
    /\ UNCHANGED <<initialized, destroyed, proto_major, proto_minor, pc, req, step,
                   called, init_ok, visible, handles, packet>>

\* Request::new on the packet: try_from, and on an error a log line and None
Parse ==
    /\ parsed = NoParse
    /\ parsed' = TryFrom(packet)
    /\ UNCHANGED <<initialized, destroyed, proto_major, proto_minor, pc, req, step,
                   sent, called, init_ok, visible, handles, packet>>

\* The arguments the dispatcher reads from a parsed operation
ArgumentsOf(operation) ==
    CASE operation.op = "Init" ->
           [major         |-> Member("fuse_init_in", "major", operation.fields["arg"]),
            minor         |-> Member("fuse_init_in", "minor", operation.fields["arg"]),
            max_readahead |-> Member("fuse_init_in", "max_readahead",
                                     operation.fields["arg"]),
            flags         |-> Member("fuse_init_in", "flags", operation.fields["arg"])]
      [] operation.op = "Write" ->
           [size |-> Member("fuse_write_in", "size", operation.fields["arg"]),
            len  |-> Len(operation.fields["data"])]
      [] operation.op = "SetXAttr" ->
           [size |-> Member("fuse_setxattr_in", "size", operation.fields["arg"]),
            len  |-> Len(operation.fields["value"])]
      [] operation.op = "Forget" ->
           [nlookup |-> Member("fuse_forget_in", "nlookup", operation.fields["arg"])]
      [] operation.op = "Interrupt" ->
           [unique |-> Member("fuse_interrupt_in", "unique", operation.fields["arg"])]
      [] OTHER -> NoArg

\* The request dispatch sees through unique(), nodeid() and operation()
ToRequest(p) ==
    [op     |-> p.operation.op,
     unique |-> p.header.unique,
     nodeid |-> p.header.nodeid,
     arg    |-> ArgumentsOf(p.operation)]

\* The session loop hands the Request that Request::new returned, if it
\* returned one, to a task that dispatches it
DispatchParsed(t) ==
    /\ parsed.ok
    /\ step.phase = "none"
    /\ Dispatch(t, ToRequest(parsed))

ParseNext ==
    \/ Parse
    \/ \E t \in Tasks :
          \/ DispatchParsed(t)
          \/ Resume(t)

ParseSpec == ParseInit /\ [][ParseNext]_vars

--------------------------------------------------------------------------
(* Properties *)

\* The last step in the primed state was the start of a dispatch
Dispatching == step'.phase = "dispatch"

\* The last step in the primed state resumed a task after the callback op awaits
Resuming(op) == step'.phase = "resume" /\ step'.req.op = op

\* The version of an INIT argument is at least 7.6
Supported(arg) == arg.major > 7 \/ (arg.major = 7 /\ arg.minor >= 6)

\* Some callback invoked by the step into the primed state is cb
Calls(cb) == \E i \in 1..Len(called') : called'[i].cb = cb

\* C1: every dispatched request gets exactly one reply packet (bound to its
\* unique id) by the time its dispatch ends, except FORGET, BATCH_FORGET and
\* INTERRUPT, which get none, in every session phase.
C1_ExactlyOneReply ==
    /\ step.done = "suspended" => sent = <<>>
    /\ step.done \in {"returned", "panicked"} =>
          IF step.req.op \in {"Forget", "BatchForget", "Interrupt"}
          THEN sent = <<>>
          ELSE Len(sent) = 1 /\ sent[1].unique = step.req.unique

\* C2: while initialized is false, the dispatch of any request other than
\* INIT sends one EIO error reply, invokes no filesystem callback and leaves
\* initialized, destroyed, proto_major and proto_minor unchanged.
C2_PreInitGate ==
    [][(Dispatching /\ step'.req.op # "Init" /\ ~initialized) =>
          /\ sent' = <<[unique |-> step'.req.unique, error |-> EIO,
                        payload |-> NoPayload]>>
          /\ called' = <<>>
          /\ step'.done = "returned"
          /\ UNCHANGED <<initialized, destroyed, proto_major, proto_minor>>]_vars

C2_Witness ==
    /\ step.phase = "dispatch"
    /\ step.req.op = "GetAttr"
    /\ ~initialized
    /\ Len(sent) = 1
    /\ sent[1].error = EIO
    /\ called = <<>>

\* C3: on a fresh session the dispatch of an INIT with version >= 7.6 stores
\* the request's major/minor and calls the init callback once, without a
\* reply yet; when the callback succeeds, initialized is set and the success
\* reply carries the implementation's major/minor, the request's
\* max_readahead and the request's flags masked with the supported flags.
C3_InitHandshake ==
    [][/\ (Dispatching /\ step'.req.op = "Init" /\ Supported(step'.req.arg)
            /\ ~initialized /\ ~destroyed) =>
              /\ called' = <<[cb |-> "init", unique |-> step'.req.unique,
                              handle |-> FALSE]>>
              /\ proto_major' = step'.req.arg.major
              /\ proto_minor' = step'.req.arg.minor
              /\ sent' = <<>>
              /\ ~initialized'
       /\ (Resuming("Init") /\ step'.awaited = 0 /\ ~initialized /\ ~destroyed) =>
              /\ initialized'
              /\ called' = <<>>
              /\ UNCHANGED <<proto_major, proto_minor, destroyed>>
              /\ Len(sent') = 1
              /\ sent'[1].unique = step'.req.unique
              /\ sent'[1].error = 0
              /\ sent'[1].payload.major = FUSE_KERNEL_VERSION
              /\ sent'[1].payload.minor = FUSE_KERNEL_MINOR_VERSION
              /\ sent'[1].payload.max_readahead = step'.req.arg.max_readahead
              /\ sent'[1].payload.flags = BitAnd(step'.req.arg.flags, INIT_FLAGS)
      ]_vars

C3_Witness ==
    /\ step.phase = "resume"
    /\ step.req.op = "Init"
    /\ step.awaited = 0
    /\ step.req.arg.major = 7 /\ step.req.arg.minor = 8
    /\ initialized /\ ~destroyed
    /\ proto_major = 7 /\ proto_minor = 8
    /\ Len(sent) = 1
    /\ sent[1].error = 0
    /\ sent[1].payload.max_readahead = 4096
    /\ sent[1].payload.flags = 1

\* C4: the dispatch of an INIT with major < 7, or major = 7 and minor < 6,
\* sends one EPROTO error reply, does not call the init callback and leaves
\* initialized, proto_major and proto_minor as they were.
C4_VersionTooOld ==
    [][(Dispatching /\ step'.req.op = "Init"
         /\ (step'.req.arg.major < 7
             \/ (step'.req.arg.major = 7 /\ step'.req.arg.minor < 6))) =>
          /\ sent' = <<[unique |-> step'.req.unique, error |-> EPROTO,
                        payload |-> NoPayload]>>
          /\ called' = <<>>
          /\ step'.done = "returned"
          /\ UNCHANGED <<initialized, proto_major, proto_minor>>]_vars

C4_Witness ==
    /\ step.phase = "dispatch"
    /\ step.req.op = "Init"
    /\ step.req.arg.major = 7 /\ step.req.arg.minor = 5
    /\ Len(sent) = 1
    /\ sent[1].error = EPROTO
    /\ ~initialized
    /\ proto_major = 0

\* C5: on an initialized, not destroyed session the dispatch of DESTROY
\* invokes the destroy callback; when it returns, destroyed is set and an
\* empty success reply is sent; a GETATTR dispatched once destroyed is set is
\* answered with EIO.
C5_DestroySteadyState ==
    [][/\ (Dispatching /\ step'.req.op = "Destroy" /\ initialized /\ ~destroyed) =>
              /\ called' = <<[cb |-> "destroy", unique |-> step'.req.unique,
                              handle |-> FALSE]>>
              /\ sent' = <<>>
       /\ (Resuming("Destroy") /\ initialized) =>
              /\ destroyed'
              /\ sent' = <<[unique |-> step'.req.unique, error |-> 0,
                            payload |-> NoPayload]>>
              /\ called' = <<>>
       /\ (Dispatching /\ step'.req.op = "GetAttr" /\ destroyed) =>
              /\ sent' = <<[unique |-> step'.req.unique, error |-> EIO,
                            payload |-> NoPayload]>>
              /\ called' = <<>>
      ]_vars

C5_Witness ==
    /\ initialized /\ destroyed
    /\ step.phase = "dispatch"
    /\ step.req.op = "GetAttr"
    /\ Len(sent) = 1
    /\ sent[1].error = EIO

\* C6: once destroyed is true, the dispatch of any request that is neither
\* INIT nor DESTROY sends one EIO error reply and invokes no filesystem
\* callback.
C6_PostDestroyGate ==
    [][(Dispatching /\ destroyed /\ step'.req.op \notin {"Init", "Destroy"}) =>
          /\ sent' = <<[unique |-> step'.req.unique, error |-> EIO,
                        payload |-> NoPayload]>>
          /\ called' = <<>>
          /\ step'.done = "returned"]_vars

C6_Witness ==
    /\ destroyed
    /\ step.phase = "dispatch"
    /\ step.req.op = "Lookup"
    /\ step.done = "returned"
    /\ Len(sent) = 1
    /\ sent[1].error = EIO
    /\ called = <<>>

\* C7: when destroyed is true, the dispatch of an INIT sends one EIO error
\* reply, does not call the init callback and writes none of proto_major,
\* proto_minor and initialized.
C7_InitAfterDestroy ==
    [][(Dispatching /\ destroyed /\ step'.req.op = "Init") =>
          /\ sent' = <<[unique |-> step'.req.unique, error |-> EIO,
                        payload |-> NoPayload]>>
          /\ called' = <<>>
          /\ UNCHANGED <<initialized, proto_major, proto_minor>>]_vars

\* C8: when destroyed is true, the dispatch of a further DESTROY sends one
\* EIO error reply and does not invoke the destroy callback again.
C8_DestroyAfterDestroy ==
    [][(Dispatching /\ destroyed /\ step'.req.op = "Destroy") =>
          /\ sent' = <<[unique |-> step'.req.unique, error |-> EIO,
                        payload |-> NoPayload]>>
          /\ called' = <<>>]_vars

\* C9: initialized and destroyed only ever change from false to true (so each
\* changes at most once); no step writes either back to false.
C9_PhaseFlagsMonotonic ==
    [][(initialized => initialized') /\ (destroyed => destroyed')]_vars

C9_Witness ==
    /\ initialized /\ destroyed
    /\ step.phase = "resume"
    /\ step.req.op = "Init"
    /\ step.awaited # 0

\* C10 as stated: once initialized is true, no step changes proto_major or
\* proto_minor or calls the init callback.
C10_NegotiationOnce ==
    [][initialized =>
          /\ proto_major' = proto_major
          /\ proto_minor' = proto_minor
          /\ ~Calls("init")]_vars

\* C10 as amended: once initialized is true, proto_major and proto_minor
\* change and the init callback is called only by the dispatch of an INIT
\* with version >= 7.6, which stores its own major/minor and calls init once.
C10_NegotiationOnlyByInit ==
    [][initialized =>
          \/ /\ proto_major' = proto_major
             /\ proto_minor' = proto_minor
             /\ ~Calls("init")
          \/ /\ Dispatching
             /\ step'.req.op = "Init"
             /\ Supported(step'.req.arg)
             /\ proto_major' = step'.req.arg.major
             /\ proto_minor' = step'.req.arg.minor
             /\ called' = <<[cb |-> "init", unique |-> step'.req.unique,
                             handle |-> FALSE]>>]_vars

C10_Witness ==
    /\ initialized
    /\ step.phase = "dispatch"
    /\ step.req.op = "Init"
    /\ step.req.arg.major = 8
    /\ proto_major = 8 /\ proto_minor = 5
    /\ Len(called) = 1
    /\ called[1].cb = "init"

\* C11: every reply packet a step writes, from the dispatcher itself or
\* through the handle a callback was given, and every reply handle a step
\* passes to a callback (the ReplyDirectory of READDIR included), carries the
\* unique id of the request that step handles, whatever else is in flight.
C11_ReplyBoundToUnique ==
    /\ \A i \in 1..Len(sent) : sent[i].unique = step.req.unique
    /\ \A i \in 1..Len(called) :
          called[i].handle => called[i].reply.unique = step.req.unique

C11_Witness ==
    /\ step.phase = "resume"
    /\ step.req.op = "ReadDir"
    /\ step.req.unique = 2
    /\ Len(sent) = 1
    /\ sent[1].unique = 2
    /\ pc[1] = "callback"
    /\ req[1].unique = 1

\* C12: as long as no INIT dispatch has ended with a success reply, a step
\* invokes no filesystem callback other than init, and the dispatch of any
\* request other than INIT (also while an INIT is suspended in the init
\* callback) sends one EIO error reply and invokes no callback.
C12_NoCallbackBeforeInit ==
    [][~init_ok =>
          /\ \A i \in 1..Len(called') : called'[i].cb = "init"
          /\ (Dispatching /\ step'.req.op # "Init") =>
                /\ sent' = <<[unique |-> step'.req.unique, error |-> EIO,
                              payload |-> NoPayload]>>
                /\ called' = <<>>]_vars

C12_Witness ==
    /\ ~init_ok
    /\ \E u \in Tasks : pc[u] = "init"
    /\ step.phase = "dispatch"
    /\ step.req.op = "Lookup"
    /\ Len(sent) = 1
    /\ sent[1].error = EIO
    /\ called = <<>>

\* C13: once the destroy callback has been invoked on an initialized session
\* (a DESTROY is suspended in it, or it has returned and destroyed is set),
\* the dispatch of a request invokes no filesystem callback.
C13_NothingFollowsDestroy ==
    [][(Dispatching /\ (destroyed \/ \E u \in Tasks : pc[u] = "destroy")) =>
          called' = <<>>]_vars

\* C14: on an initialized, not destroyed session the dispatch of an
\* INTERRUPT sends one ENOSYS error reply, invokes no callback, leaves the
\* session as it is and changes no other task: the requests in flight, the
\* one it names included, stay suspended where they are.
C14_InterruptSteadyState ==
    [][(Dispatching /\ step'.req.op = "Interrupt" /\ initialized /\ ~destroyed) =>
          /\ sent' = <<[unique |-> step'.req.unique, error |-> ENOSYS,
                        payload |-> NoPayload]>>
          /\ called' = <<>>
          /\ step'.done = "returned"
          /\ UNCHANGED <<initialized, destroyed, proto_major, proto_minor>>
          /\ \A u \in Tasks \ {step'.task} :
                pc'[u] = pc[u] /\ req'[u] = req[u]]_vars

C14_Witness ==
    /\ initialized /\ ~destroyed
    /\ step.phase = "dispatch"
    /\ step.req.op = "Interrupt"
    /\ Len(sent) = 1
    /\ sent[1].error = ENOSYS
    /\ called = <<>>
    /\ \E u \in Tasks :
          /\ u # step.task
          /\ pc[u] = "callback"
          /\ req[u].unique = step.req.arg.unique

\* C15: on an initialized, not destroyed session the dispatch of a FORGET
\* invokes the forget callback once, without a reply handle, with the node id
\* of the request's header and the nlookup of its argument, and neither that
\* step nor the return of the callback sends a reply.
C15_ForgetSteadyState ==
    [][/\ (Dispatching /\ step'.req.op = "Forget" /\ initialized /\ ~destroyed) =>
              /\ Len(called') = 1
              /\ called'[1].cb = "forget"
              /\ ~called'[1].handle
              /\ called'[1].args = [nodeid  |-> step'.req.nodeid,
                                    nlookup |-> step'.req.arg.nlookup]
              /\ sent' = <<>>
       /\ Resuming("Forget") =>
              /\ sent' = <<>>
              /\ called' = <<>>
      ]_vars

C15_Witness ==
    /\ initialized /\ ~destroyed
    /\ step.phase = "dispatch"
    /\ step.req.op = "Forget"
    /\ step.req.nodeid = 2
    /\ step.req.arg.nlookup = 1
    /\ Len(called) = 1
    /\ called[1].args.nodeid = 2
    /\ called[1].args.nlookup = 1
    /\ sent = <<>>

\* C16: on an initialized, not destroyed session the dispatch of a
\* BATCH_FORGET invokes a filesystem callback and sends no reply.
C16_BatchForgetSteadyState ==
    [][(Dispatching /\ step'.req.op = "BatchForget" /\ initialized /\ ~destroyed) =>
          /\ Len(called') = 1
          /\ sent' = <<>>]_vars

\* C17: whenever a step invokes the write or the setxattr callback, the
\* length of the data buffer it forwards equals the size field of the
\* request's argument.
C17_DataLengthForwarded ==
    \A i \in 1..Len(called) :
        called[i].cb \in {"write", "setxattr"} =>
            called[i].args.data_len = step.req.arg.size

C17_Witness ==
    /\ step.phase = "dispatch"
    /\ step.req.op = "SetXAttr"
    /\ step.req.arg.size = 1
    /\ Len(called) = 1
    /\ called[1].cb = "setxattr"
    /\ called[1].args.data_len = 1

\* The total_length field of the header of a packet of at least 40 bytes
TotalLength(b) == FromLE(SubSeq(b, 1, 4))

\* The opcode field of the header of a packet of at least 40 bytes
OpcodeField(b) == FromLE(SubSeq(b, 5, 8))

\* C18: for every packet parsed as a WRITE the data it carries is as long as
\* its fuse_write_in.size, and for every packet parsed as a SETXATTR the value
\* is as long as its fuse_setxattr_in.size.
C18_ParserGuaranteesDataSize ==
    parsed.ok =>
        /\ parsed.operation.op = "Write" =>
              Len(parsed.operation.fields["data"]) =
                  Member("fuse_write_in", "size", parsed.operation.fields["arg"])
        /\ parsed.operation.op = "SetXAttr" =>
              Len(parsed.operation.fields["value"]) =
                  Member("fuse_setxattr_in", "size", parsed.operation.fields["arg"])

\* C19: parsing a packet of fewer than 40 bytes fails with ShortReadHeader
\* carrying the length of the packet.
C19_ShortReadHeader ==
    (parsed # NoParse /\ Len(packet) < 40) =>
        parsed = [ok |-> FALSE, err |-> "ShortReadHeader", a |-> Len(packet), b |-> 0]

C19_Witness ==
    /\ Len(packet) = 20
    /\ OpcodeField(packet) = 26
    /\ parsed.err = "ShortReadHeader"
    /\ parsed.a = 20

\* C20: parsing a packet of at least 40 bytes whose opcode is recognized and
\* whose header announces a total length greater than the length of the
\* packet fails with ShortRead carrying the length of the packet and the
\* announced total length.
C20_ShortRead ==
    (/\ parsed # NoParse
     /\ Len(packet) >= 40
     /\ OpcodeOf(OpcodeField(packet)) # "Unknown"
     /\ TotalLength(packet) > Len(packet)) =>
        parsed = [ok |-> FALSE, err |-> "ShortRead", a |-> Len(packet),
                  b |-> TotalLength(packet)]

C20_Witness ==
    /\ Len(packet) = 48
    /\ OpcodeField(packet) = 26
    /\ TotalLength(packet) = 56
    /\ parsed.err = "ShortRead"
    /\ parsed.a = 48
    /\ parsed.b = 56

\* C24: when the init callback of an INIT whose version was accepted returns
\* an errno, the task sends one error reply carrying that errno and no
\* payload, invokes nothing and leaves initialized as it was.
C24_InitCallbackError ==
    [][(Resuming("Init") /\ step'.awaited # 0) =>
          /\ sent' = <<[unique |-> step'.req.unique, error |-> step'.awaited,
                        payload |-> NoPayload]>>
          /\ called' = <<>>
          /\ initialized' = initialized]_vars

C24_Witness ==
    /\ step.phase = "resume"
    /\ step.req.op = "Init"
    /\ step.awaited = 13
    /\ Supported(step.req.arg)
    /\ Len(sent) = 1
    /\ sent[1].error = 13
    /\ sent[1].payload = NoPayload
    /\ ~initialized

\* C25: the dispatch of an IOCTL, POLL, NOTIFY_REPLY, FALLOCATE or CUSE_INIT
\* invokes no filesystem callback and sends one error reply: ENOSYS on an
\* initialized, not destroyed session, EIO when initialized is false or
\* destroyed is true.
C25_VersionGatedOps ==
    [][(Dispatching /\ step'.req.op \in
            {"IoCtl", "Poll", "NotifyReply", "FAllocate", "CuseInit"}) =>
          /\ called' = <<>>
          /\ sent' = <<[unique |-> step'.req.unique,
                        error |-> IF initialized /\ ~destroyed THEN ENOSYS ELSE EIO,
                        payload |-> NoPayload]>>]_vars

C25_Witness ==
    /\ initialized /\ ~destroyed
    /\ step.phase = "dispatch"
    /\ step.req.op = "FAllocate"
    /\ Len(sent) = 1
    /\ sent[1].error = ENOSYS
    /\ called = <<>>

C25_WitnessGated ==
    /\ destroyed
    /\ step.phase = "dispatch"
    /\ step.req.op = "IoCtl"
    /\ Len(sent) = 1
    /\ sent[1].error = EIO

\* C30: destroyed implies initialized in every state: destroyed becomes true
\* only when a DESTROY returns from the destroy callback, after an INIT has
\* ended with success, and no step clears initialized.
C30_DestroyedImpliesInitialized ==
    /\ [](destroyed => initialized)
    /\ [][/\ (destroyed' /\ ~destroyed) => (Resuming("Destroy") /\ init_ok)
          /\ initialized => initialized']_vars

C30_Witness ==
    /\ destroyed /\ initialized
    /\ step.phase = "resume"
    /\ step.req.op = "Destroy"
    /\ init_ok

\* C28: the step that writes the success reply of an INIT has stored
\* initialized = true by the time it writes, and the step that writes the
\* success reply of a DESTROY has stored destroyed = true by then; hence once
\* an INIT has been answered with success, initialized is true at every later
\* dispatch and, before DESTROY, no dispatch is answered with the EIO of the
\* pre-init gate.
C28_FlagsBeforeReply ==
    [][/\ (Resuming("Init") /\ step'.awaited = 0) =>
              /\ Len(sent') = 1
              /\ sent'[1].error = 0
              /\ visible'[1]
       /\ Resuming("Destroy") =>
              /\ Len(sent') = 1
              /\ sent'[1].error = 0
              /\ visible'[2]
       /\ (init_ok /\ Dispatching) =>
              /\ initialized
              /\ ~destroyed => \A i \in 1..Len(sent') : sent'[i].error # EIO
      ]_vars

C28_Witness ==
    /\ step.phase = "resume"
    /\ step.req.op = "Init"
    /\ step.awaited = 0
    /\ Len(sent) = 1
    /\ sent[1].error = 0
    /\ visible = <<TRUE, FALSE>>
    /\ init_ok

\* Bit k of the natural v is set
BitSet(v, k) == (v \div (2 ^ k)) % 2 = 1

\* The optional value o is present exactly when bit k of valid is set, and
\* is then v
PresentIff(o, valid, k, v) ==
    /\ o.some <=> BitSet(valid, k)
    /\ o.some => o.val = v

\* C29: on an initialized, not destroyed session the dispatch of a SETATTR
\* invokes setattr once with mode, uid, gid, size, atime, mtime and fh each
\* present exactly when bit 0, 1, 2, 3, 4, 5, 6 of arg.valid is set and then
\* equal to the argument's field, and with crtime, chgtime, bkuptime and
\* flags absent whatever arg.valid is.
C29_SetAttrValidBits ==
    [][(Dispatching /\ step'.req.op = "SetAttr" /\ initialized /\ ~destroyed) =>
          /\ Len(called') = 1
          /\ called'[1].cb = "setattr"
          /\ PresentIff(called'[1].args.mode, step'.req.arg.valid, 0, step'.req.arg.mode)
          /\ PresentIff(called'[1].args.uid, step'.req.arg.valid, 1, step'.req.arg.uid)
          /\ PresentIff(called'[1].args.gid, step'.req.arg.valid, 2, step'.req.arg.gid)
          /\ PresentIff(called'[1].args.size, step'.req.arg.valid, 3, step'.req.arg.size)
          /\ PresentIff(called'[1].args.atime, step'.req.arg.valid, 4,
                        <<step'.req.arg.atime, step'.req.arg.atimensec>>)
          /\ PresentIff(called'[1].args.mtime, step'.req.arg.valid, 5,
                        <<step'.req.arg.mtime, step'.req.arg.mtimensec>>)
          /\ PresentIff(called'[1].args.fh, step'.req.arg.valid, 6, step'.req.arg.fh)
          /\ ~called'[1].args.crtime.some
          /\ ~called'[1].args.chgtime.some
          /\ ~called'[1].args.bkuptime.some
          /\ ~called'[1].args.flags.some]_vars

C29_Witness ==
    /\ initialized /\ ~destroyed
    /\ step.phase = "dispatch"
    /\ step.req.op = "SetAttr"
    /\ step.req.arg.valid = 42
    /\ Len(called) = 1
    /\ called[1].args.uid = [some |-> TRUE, val |-> 1000]
    /\ called[1].args.gid = [some |-> FALSE]
    /\ called[1].args.mtime = [some |-> TRUE, val |-> <<8, 10>>]

C29_WitnessMacBits ==
    /\ initialized /\ ~destroyed
    /\ step.phase = "dispatch"
    /\ step.req.op = "SetAttr"
    /\ step.req.arg.valid > 127
    /\ Len(called) = 1
    /\ called[1].args.mode = [some |-> TRUE, val |-> 420]
    /\ called[1].args.crtime = [some |-> FALSE]

\* The argument bytes of opcode that satisfy its schema
WellFormed(opcode) == IF opcode = 1 THEN {Name \o <<0>>} ELSE Bodies(opcode)

\* The Operation variant the protocol assigns to the opcodes of the packets
VariantOf(opcode) ==
    CASE opcode = 1  -> "Lookup"
      [] opcode = 2  -> "Forget"
      [] opcode = 3  -> "GetAttr"
      [] opcode = 5  -> "ReadLink"
      [] opcode = 8  -> "MkNod"
      [] opcode = 16 -> "Write"
      [] opcode = 17 -> "StatFs"
      [] opcode = 21 -> "SetXAttr"
      [] opcode = 26 -> "Init"
      [] opcode = 36 -> "Interrupt"
      [] opcode = 38 -> "Destroy"
      [] opcode = 40 -> "Poll"
      [] opcode = 42 -> "BatchForget"

\* C21: parsing a complete packet with a recognized opcode and well-formed
\* arguments succeeds with the total length, opcode, unique, nodeid, uid, gid
\* and pid the header bytes encode and with the Operation variant of the
\* opcode, its arguments decoded from the bytes behind the header: INIT with
\* the major, minor and max_readahead encoded, MKNOD with the mode and the
\* name encoded, FORGET with its nlookup, WRITE with the bytes that follow
\* its argument as data.
C21_ParseDecodes ==
    \A o \in PacketOpcodes \ {44} : \A b \in WellFormed(o) :
        (packet = PacketOf(o, b) /\ parsed # NoParse) =>
            /\ parsed.ok
            /\ parsed.header.len = 40 + Len(b)
            /\ parsed.header.opcode = o
            /\ parsed.header.unique = 1
            /\ parsed.header.nodeid = 2
            /\ parsed.header.uid = 1000
            /\ parsed.header.gid = 100
            /\ parsed.header.pid = 4242
            /\ parsed.operation.op = VariantOf(o)
            /\ o = 26 =>
                  \A a \in InitArgs :
                      b = ToLE(a.major, 4) \o ToLE(a.minor, 4)
                              \o ToLE(a.max_readahead, 4) \o ToLE(a.flags, 4) =>
                          /\ Member("fuse_init_in", "major",
                                    parsed.operation.fields["arg"]) = a.major
                          /\ Member("fuse_init_in", "minor",
                                    parsed.operation.fields["arg"]) = a.minor
                          /\ Member("fuse_init_in", "max_readahead",
                                    parsed.operation.fields["arg"]) = a.max_readahead
            /\ o = 8 =>
                  /\ Member("fuse_mknod_in", "mode",
                            parsed.operation.fields["arg"]) = 420
                  /\ Member("fuse_mknod_in", "rdev",
                            parsed.operation.fields["arg"]) = 5
                  /\ parsed.operation.fields["name"] = Name
            /\ o = 2 =>
                  \A a \in ForgetArgs :
                      b = ToLE(a.nlookup, 8) =>
                          Member("fuse_forget_in", "nlookup",
                                 parsed.operation.fields["arg"]) = a.nlookup
            /\ o = 16 =>
                  parsed.operation.fields["data"] =
                      SubSeq(b, SizeOf("fuse_write_in") + 1, Len(b))

C21_Witness ==
    /\ Len(packet) = 40 + SizeOf("fuse_mknod_in") + 2
    /\ TotalLength(packet) = Len(packet)
    /\ OpcodeField(packet) = 8
    /\ parsed.ok
    /\ parsed.operation.op = "MkNod"
    /\ parsed.header.unique = 1
    /\ parsed.header.nodeid = 2
    /\ Member("fuse_mknod_in", "mode", parsed.operation.fields["arg"]) = 420
    /\ parsed.operation.fields["name"] = <<97>>

C21_WitnessInit ==
    /\ Len(packet) = 56
    /\ TotalLength(packet) = 56
    /\ OpcodeField(packet) = 26
    /\ parsed.ok
    /\ parsed.operation.op = "Init"
    /\ Member("fuse_init_in", "major", parsed.operation.fields["arg"]) = 7
    /\ Member("fuse_init_in", "minor", parsed.operation.fields["arg"]) = 8
    /\ Member("fuse_init_in", "max_readahead", parsed.operation.fields["arg"]) = 4096

\* C22: every packet that parses successfully has a header whose total
\* length is at least 40, the size of the header.
C22_TotalLengthAtLeastHeader ==
    parsed.ok => parsed.header.len >= SizeOf("fuse_in_header")

\* The parse has failed with the error e
FailedWith(e) == ~parsed.ok /\ parsed.err = e

\* C26: the parser fetches the header, then decodes the opcode, then checks
\* the total length, then fetches the arguments: a packet shorter than a
\* header fails with ShortReadHeader and no other does; a packet of at least
\* 40 bytes whose opcode is not recognized fails with UnknownOperation
\* carrying the opcode, also when the packet is shorter than the total length
\* its header announces; ShortRead is reported only for recognized opcodes
\* and InsufficientData only for packets that passed the length check.
C26_CheckOrder ==
    parsed # NoParse =>
        /\ FailedWith("ShortReadHeader") <=> Len(packet) < 40
        /\ (Len(packet) >= 40 /\ OpcodeOf(OpcodeField(packet)) = "Unknown") =>
              parsed = [ok |-> FALSE, err |-> "UnknownOperation",
                        a |-> OpcodeField(packet), b |-> 0]
        /\ FailedWith("ShortRead") =>
              /\ OpcodeOf(OpcodeField(packet)) # "Unknown"
              /\ TotalLength(packet) > Len(packet)
        /\ FailedWith("InsufficientData") =>
              /\ OpcodeOf(OpcodeField(packet)) # "Unknown"
              /\ TotalLength(packet) <= Len(packet)

C26_Witness ==
    /\ Len(packet) = 41
    /\ OpcodeField(packet) = 44
    /\ TotalLength(packet) = 42
    /\ parsed.err = "UnknownOperation"
    /\ parsed.a = 44

\* The bytes d hold a NUL
HasNul(d) == \E i \in 1..Len(d) : d[i] = 0

\* The bytes of d behind its first n
After(d, n) == SubSeq(d, n + 1, Len(d))

\* Some element of the argument schema of opcode cannot be taken from the
\* bytes d that follow the header: a struct larger than what is left, or a
\* name without a NUL
CannotFetch(opcode, d) ==
    CASE opcode = 1  -> ~HasNul(d)
      [] opcode = 2  -> Len(d) < 8
      [] opcode = 3  -> FALSE
      [] opcode = 5  -> FALSE
      [] opcode = 8  -> Len(d) < SizeOf("fuse_mknod_in")
                            \/ ~HasNul(After(d, SizeOf("fuse_mknod_in")))
      [] opcode = 16 -> Len(d) < SizeOf("fuse_write_in")
      [] opcode = 17 -> FALSE
      [] opcode = 21 -> Len(d) < 8 \/ ~HasNul(After(d, 8))
      [] opcode = 26 -> Len(d) < 16
      [] opcode = 36 -> Len(d) < 8
      [] opcode = 38 -> FALSE
      [] opcode = 40 -> Len(d) < 24
      [] opcode = 42 -> Len(d) < 8

\* C27: a packet of at least 40 bytes with a recognized opcode that is at
\* least as long as the total length its header announces fails with
\* InsufficientData exactly when some element of the opcode's argument
\* schema cannot be fetched from the bytes behind the header, and parses
\* otherwise; GETATTR, READLINK, STATFS and DESTROY, which have no arguments,
\* never fail so.
C27_InsufficientData ==
    (/\ parsed # NoParse
     /\ Len(packet) >= 40
     /\ OpcodeOf(OpcodeField(packet)) # "Unknown"
     /\ TotalLength(packet) <= Len(packet)) =>
        /\ FailedWith("InsufficientData") <=>
              CannotFetch(OpcodeField(packet), After(packet, 40))
        /\ ~FailedWith("InsufficientData") => parsed.ok
        /\ OpcodeField(packet) \in {3, 5, 17, 38} => parsed.ok

C27_Witness ==
    /\ Len(packet) = 41
    /\ TotalLength(packet) = 41
    /\ OpcodeField(packet) = 1
    /\ ~parsed.ok
    /\ parsed.err = "InsufficientData"

C27_WitnessStruct ==
    /\ Len(packet) = 48
    /\ TotalLength(packet) = 48
    /\ OpcodeField(packet) = 26
    /\ ~parsed.ok
    /\ parsed.err = "InsufficientData"

C27_WitnessNoArguments ==
    /\ Len(packet) = 41
    /\ TotalLength(packet) = 39
    /\ OpcodeField(packet) = 38
    /\ parsed.ok

\* C23: when Request::new fails to parse the packet (ShortReadHeader,
\* UnknownOperation, ShortRead or InsufficientData) it writes no reply,
\* invokes nothing and leaves the session and every task as they were, and
\* from then on nothing happens for the packet: no request is dispatched.
C23_ParseErrorDropsPacket ==
    [][/\ (parsed = NoParse /\ parsed' # NoParse /\ ~parsed'.ok) =>
              /\ parsed'.err \in {"ShortReadHeader", "UnknownOperation", "ShortRead",
                                  "InsufficientData"}
              /\ UNCHANGED <<initialized, destroyed, proto_major, proto_minor>>
              /\ UNCHANGED <<pc, req, step>>
              /\ sent' = <<>>
              /\ called' = <<>>
       /\ ~(parsed # NoParse /\ ~parsed.ok)
      ]_vars

C23_Witness ==
    /\ parsed # NoParse
    /\ ~parsed.ok
    /\ parsed.err = "InsufficientData"
    /\ initialized /\ ~destroyed
    /\ proto_major = 7
    /\ sent = <<>>
    /\ called = <<>>
    /\ step.phase = "none"

C23_WitnessDispatched ==
    /\ parsed.ok
    /\ parsed.operation.op = "GetAttr"
    /\ step.phase = "resume"
    /\ Len(sent) = 1
    /\ sent[1].unique = 1

C32_OtherRequestsLeaveSession ==
    [][(step'.phase \in {"dispatch", "resume"}
         /\ step'.req.op \notin {"Init", "Destroy"}) =>
          UNCHANGED <<initialized, destroyed, proto_major, proto_minor>>]_vars

C32_Witness ==
    /\ step.phase = "resume"
    /\ step.req.op = "SetAttr"
    /\ step.awaited = 13
    /\ initialized /\ ~destroyed
    /\ proto_major = 7 /\ proto_minor = 6
    /\ Len(sent) = 1
    /\ sent[1].error = 13

C32_WitnessBeforeInit ==
    /\ step.phase = "dispatch"
    /\ step.req.op = "GetAttr"
    /\ ~initialized
    /\ proto_major = 8 /\ proto_minor = 5
    /\ Len(sent) = 1

\* C33: no step of the dispatch of a FORGET writes a reply packet, in any
\* session phase: before initialization and after destruction as well.
C33_ForgetNeverReplied ==
    step.req.op = "Forget" => sent = <<>>

\* C34: the parse of a buffer that is at least as long as the total length
\* its header announces (a total length of at least a header) equals the
\* parse of the buffer cut to that total length: no byte beyond the total
\* length ends up in a parsed name, argument or data buffer.
C34_ParseWithinTotalLength ==
    (/\ parsed # NoParse
     /\ Len(packet) >= SizeOf("fuse_in_header")
     /\ TotalLength(packet) >= SizeOf("fuse_in_header")
     /\ TotalLength(packet) <= Len(packet)) =>
        parsed = TryFrom(SubSeq(packet, 1, TotalLength(packet)))

\* C35: the dispatch of a request makes at most one reply handle on every
\* path, and none for a FORGET that reaches the forget arm; a step invokes at
\* most one callback, which is given at most the one handle made; a
\* suspended dispatch has written nothing and a step writes no more reply
\* packets than handles were made, so no dispatch writes two replies.
C35_AtMostOneReplyHandle ==
    /\ \A t \in Tasks : handles[t] <= 1
    /\ Len(called) <= 1
    /\ \A i \in 1..Len(called) :
          called[i].handle =>
              /\ handles[step.task] = 1
              /\ called[i].reply.unique = step.req.unique
    /\ step.done = "suspended" => sent = <<>>
    /\ step.phase # "none" => Len(sent) <= handles[step.task]
    /\ (step.req.op = "Forget" /\ (called # <<>> \/ step.phase = "resume")) =>
          handles[step.task] = 0

C35_Witness ==
    /\ step.phase = "resume"
    /\ step.req.op = "Init"
    /\ step.awaited = 0
    /\ handles[step.task] = 1
    /\ Len(sent) = 1
    /\ \E u \in Tasks : pc[u] = "callback" /\ handles[u] = 1

C35_WitnessForget ==
    /\ step.phase = "resume"
    /\ step.req.op = "Forget"
    /\ handles[step.task] = 0
    /\ sent = <<>>
====
